---- MODULE Spec2Model ----
(***************************************************************************)
(* Crawl orchestration and detail caching of the job spiders               *)
(* (NSWJobSpider in src/spiders/nswGovJobs.js, SeekJobSpider in            *)
(* src/unnamed/part_002) together with the entry points that run them.     *)
(*                                                                         *)
(* One process runs one spider: the constructor rebuilds the cache from    *)
(* the result files, launch() starts the browser and #crawl walks the      *)
(* list pages, resolving every listing's detail through the cache.  The    *)
(* rendering provider (puppeteer), the site and the clock are the          *)
(* environment: every provider call either returns or throws, and what a   *)
(* page shows is chosen when the page is read.                             *)
(*                                                                         *)
(* Spec runs NSWJobSpider or SeekJobSpider; SpecFair is Spec with the      *)
(* steps of the paging loop taken whenever they stay possible.  SpecPublic *)
(* runs PublicJobSpider (src/unnamed/part_002): the restart made by the    *)
(* catch block of its #crawl and its two interval polls.                   *)
(***************************************************************************)
EXTENDS Integers, Sequences, FiniteSets, TLC

VARIABLES
  spider,        \* which spider class the entry point constructs
  pc,            \* position of the single thread of control
  now,           \* the clock (new Date()), in milliseconds
  files,         \* the result files of database/jobs, in directory order
  cachedJobs,    \* #cachedJobs: jobId -> entry
  browser,       \* this.browser: "null", "open" or "closed"
  closeCalls,    \* how often browser.close() was invoked
  detailOpen,    \* detail pages opened and not closed
  detailOpens,   \* calls of browser.newPage() for the items of the page
  detailNavs,    \* calls of detailPage.goto() for the items of the page
  totalJobs,     \* the announced count read on page 1
  totalPages,    \* Math.ceil(totalJobs / pageSize)
  currentPage,   \* the paging loop's counter
  hasMoreJobs,   \* the paging loop's flag
  allJobs,       \* records accumulated by the session
  summaries,     \* summaries the Page Extractor has returned in the session
  extracted,     \* the summaries the Page Extractor has returned, with their page
  rendered,      \* the list elements page.evaluate has just read (<<>> otherwise)
  jobListings,   \* the summaries of the page being processed
  idx,           \* index of the next listing of jobListings
  jobs,          \* records of the page being processed
  resolved,      \* what the Detail Fetcher resolved for each item of the page
  successfulScrapes, \* successfulScrapes of #scrapeJobs
  failedScrapes, \* failedScrapes of #scrapeJobs
  freshSeen,     \* items of the page whose entry was at most 24h old at lookup
  challenge,     \* the anti-automation challenge: "none", "shown" or "solved"
  confirmed,     \* #waitForUserInput has resolved: the operator pressed Enter
  lastFetch,     \* outcome of the detail fetch that has just returned
  err,           \* message of the error caught by #crawl or launch ("" when none)
  failPage,      \* page whose navigation or extraction raised (0: none)
  emptyPage,     \* first page whose extractor returned no summary (0: none)
  sessions,      \* crawl sessions started (DISCOVERING entered)
  navigated,     \* list pages handed to page.goto, in order
  listed,        \* list elements the site has served in this run
  writes,        \* fs.writeFile calls issued, in order
  launchResult,  \* launch(): "pending", "resolved" or "rejected"
  thrown,        \* what the provider threw while discovering ("" when nothing)
  exit,          \* the process: "running", "success" (message printed), "exit1",
                 \* or "crashed" (ended by an unhandled rejection)
  page,          \* this.page of PublicJobSpider: "null" or "open"
  url,           \* page.url() of that page
  updatesInterval, \* the interval of #latestUpdates: "none", "set" or "cleared"
  advertInterval,  \* the interval of #advertLinks: "none", "set" or "cleared"
  advertCalls,   \* advertList() calls suspended in await page.$$
  restarts,      \* launch() calls made by the catch block of PublicJobSpider.#crawl
  openBrowsers,  \* browsers puppeteer.launch has started and nothing has closed
  ticks,         \* interval callbacks run so far
  followUps,     \* how often advertList went on to read the advert links
  unhandled      \* message of a rejection no handler caught ("" when none)

\* the variables only PublicJobSpider uses
publicVars == <<page, url, updatesInterval, advertInterval, advertCalls,
                restarts, openBrowsers, ticks, followUps, unhandled>>

vars == <<spider, publicVars, thrown, confirmed, rendered, pc, now, files,
          cachedJobs, browser, closeCalls,
          detailOpen, detailOpens, detailNavs, totalJobs, totalPages,
          currentPage, hasMoreJobs, allJobs, summaries, extracted,
          jobListings, idx, jobs,
          resolved, successfulScrapes, failedScrapes,
          freshSeen, challenge, lastFetch, err, failPage, emptyPage, sessions,
          navigated,
          listed, writes, launchResult, exit>>

----------------------------------------------------------------------------
(* Bounds of the model *)

\* list elements the site serves in one run, over all its pages
MaxListed == 2

----------------------------------------------------------------------------
(* Program constants *)

\* 24 * 60 * 60 * 1000, the age after which #checkCache reports absent
DayMs == 86400000
\* this.pageSize of NSWJobSpider
PageSizeNSW == 25
\* this.pageSize of SeekJobSpider
PageSizeSeek == 22

Spiders == {"nsw", "seek"}

pageSize == IF spider = "nsw" THEN PageSizeNSW ELSE PageSizeSeek

----------------------------------------------------------------------------
(* Dates.  A date string is kept with its format: Date#toISOString() keeps  *)
(* the instant to the millisecond, #date("timestamp") prints the local      *)
(* time to the second as YYYY-MM-DD-HH-MM-SS.                               *)

NoDate == [fmt |-> "none", t |-> 0]

toISOString(t) == [fmt |-> "iso", t |-> t]

dateTimestamp(t) == [fmt |-> "ymdhms", t |-> (t \div 1000) * 1000]

\* #date("date"): the local day as YYYY-MM-DD
dateDay(t) == [fmt |-> "ymd", t |-> (t \div DayMs) * DayMs]

\* new Date(string): the ISO format parses to its instant; the dash-separated
\* timestamp is no date-time string format and parses to an Invalid Date,
\* whose time value is NaN.
newDate(s) == IF s.fmt = "iso" THEN [valid |-> TRUE, t |-> s.t]
                               ELSE [valid |-> FALSE, t |-> 0]

\* now - lastScraped > 24 * 60 * 60 * 1000, false when lastScraped is NaN
olderThanDay(d) == d.valid /\ now - d.t > DayMs

\* the instant a date string was printed at (to its precision)
instantOf(s) == s.t

----------------------------------------------------------------------------
(* Data model *)

\* a Job Detail; JavaScript's null is the record with null = TRUE
NullDetails == [null |-> TRUE, url |-> "", lastScraped |-> NoDate]

\* what detailPage.evaluate returns for the page at jobUrl, read at time t
detailOf(jobUrl, t) == [null |-> FALSE, url |-> jobUrl, lastScraped |-> toISOString(t)]

\* the fields a Page Extractor returns per listing
SummaryFields == {"jobId", "jobUrl"}

\* the listings the site can show; the reference number may be missing, and
\* the extractor then yields the empty string for jobId
Listings ==
  { [jobId |-> "a", jobUrl |-> "u1"],
    [jobId |-> "",  jobUrl |-> "u2"],
    [jobId |-> "",  jobUrl |-> "u3"] }

JobIds == {l.jobId : l \in Listings}

\* an element of the rendered list: a listing, or one whose extraction throws
Elements == [jobId : JobIds, jobUrl : {l.jobUrl : l \in Listings}, throws : BOOLEAN]

GoodElements == {e \in Elements : ~e.throws /\ [jobId |-> e.jobId, jobUrl |-> e.jobUrl] \in Listings}
BadElements == {[jobId |-> "", jobUrl |-> "u2", throws |-> TRUE]}

\* the rendered lists a page can show when the site has n elements left
Doms(n) == UNION {[1..k -> GoodElements \cup BadElements] : k \in 0..n}

summaryOf(e) == [jobId |-> e.jobId, jobUrl |-> e.jobUrl]

\* a merge that loses the listing's URL
mergeDropsUrl(jobInfo, details) ==
  [f \in ((DOMAIN jobInfo) \ {"jobUrl"}) \cup {"details"} |->
     IF f = "details" THEN details ELSE jobInfo[f]]

\* { ...jobInfo, details: jobDetails }
merge(jobInfo, details) ==
  [f \in (DOMAIN jobInfo) \cup {"details"} |->
     IF f = "details" THEN details ELSE jobInfo[f]]

RECURSIVE filterGood(_)
filterGood(dom) ==
  IF dom = <<>> THEN <<>>
  ELSE IF Head(dom).throws THEN filterGood(Tail(dom))
       ELSE <<summaryOf(Head(dom))>> \o filterGood(Tail(dom))

\* NSWJobSpider.#scrapeJobs, page.evaluate: a plain map, so one throwing
\* element rejects the whole evaluation
extractNSW(dom) ==
  [ok |-> \A i \in DOMAIN dom : ~dom[i].throws,
   list |-> [i \in DOMAIN dom |-> summaryOf(dom[i])]]

\* SeekJobSpider.#scrapeJobs, page.evaluate: try/catch per element returning
\* null, then filter(Boolean)
extractSeek(dom) == [ok |-> TRUE, list |-> filterGood(dom)]

extract(dom) == IF spider = "nsw" THEN extractNSW(dom) ELSE extractSeek(dom)

----------------------------------------------------------------------------
(* Cache Store *)

NoEntry == [has |-> FALSE, lastScraped |-> NoDate, details |-> NullDetails]

EmptyCache == [k \in JobIds |-> NoEntry]

\* this.#cachedJobs.set(jobId, {lastScraped, details})
cacheSet(cache, jobId, lastScraped, details) ==
  [cache EXCEPT ![jobId] = [has |-> TRUE, lastScraped |-> lastScraped, details |-> details]]

\* the forEach of loadCache over one file's jobs
RECURSIVE loadJobs(_, _, _)
loadJobs(cache, date_scraped, js) ==
  IF js = <<>> THEN cache
  ELSE LET job == Head(js)
           next == IF job.jobId # "" /\ ~job.details.null
                   THEN cacheSet(cache, job.jobId, date_scraped, job.details)
                   ELSE cache
       IN loadJobs(next, date_scraped, Tail(js))

\* loadCache: the files in directory order; a file whose JSON.parse throws
\* ends the loop in the catch block, which keeps what was loaded so far
RECURSIVE loadFiles(_, _)
loadFiles(cache, fs) ==
  IF fs = <<>> THEN cache
  ELSE IF ~Head(fs).parses THEN cache
       ELSE loadFiles(loadJobs(cache, Head(fs).date_scraped, Head(fs).jobs), Tail(fs))

loadCache(fs) == loadFiles(EmptyCache, fs)

\* #checkCache(jobId)
checkCache(jobId) ==
  IF ~cachedJobs[jobId].has THEN NullDetails
  ELSE IF olderThanDay(newDate(cachedJobs[jobId].lastScraped)) THEN NullDetails
       ELSE cachedJobs[jobId].details

\* whether the entry of jobId is at most 24h old (the Cache Entry invariant)
isFresh(jobId) ==
  cachedJobs[jobId].has /\ now - instantOf(cachedJobs[jobId].lastScraped) <= DayMs

----------------------------------------------------------------------------
(* Persistent storage at start: the result files earlier runs left in       *)
(* database/jobs.  An earlier run at time 0 resolved listing "a".           *)

PriorFile ==
  [name |-> "nswgov-day0", parses |-> TRUE, date_scraped |-> dateTimestamp(0),
   jobs |-> <<merge([jobId |-> "a", jobUrl |-> "u1"], detailOf("u1", 0))>>]

\* a .json file of the directory whose content JSON.parse rejects, such as a
\* result file cut short when its process ended before the write finished
BrokenFile ==
  [name |-> "broken", parses |-> FALSE, date_scraped |-> NoDate, jobs |-> <<>>]

InitialDirs == {<<>>, <<PriorFile>>, <<BrokenFile, PriorFile>>}

----------------------------------------------------------------------------
(* Environment *)

\* messages of the errors the rendering provider can throw: one that carries
\* a signature of the restart lists of PublicJobSpider, one that carries none
ProviderErrors == {"Navigation failed because browser has disconnected!", "net::ERR_ABORTED"}

\* the outcome of a provider call: it returns, or throws one of the errors
Outcomes == {"ok"} \cup ProviderErrors

\* the outcome of browser.close() and of page.screenshot()
CloseOutcomes == {"ok", "Protocol error: Target closed"}

\* the counts page 1 can announce (0: the message is missing or says 0)
Totals == {0, 1, 26}

\* the instants the clock is read at: the start, one second after the earlier
\* run of PriorFile; one second later; and the same two instants 24 hours on
Instants == {1000, 2000, DayMs + 1000, DayMs + 2000}

\* the instant the process starts at
StartInstant == CHOOSE t \in Instants : \A u \in Instants : t <= u

\* Math.ceil(totalJobs / this.pageSize)
ceilDiv(n, d) == (n + d - 1) \div d

----------------------------------------------------------------------------
(* Files written *)

\* a Crawl Result that reports the loop counter as the number of pages
crawlResultCountsNextPage(pages) ==
  [kind |-> "result", done |-> FALSE, text |-> "",
   total_jobs |-> Len(allJobs), expected_total_jobs |-> totalJobs,
   total_pages |-> pages + 1, jobs_created |-> Len(allJobs), jobs_skipped |-> 0,
   error_occurred |-> FALSE, date |-> NoDate,
   date_scraped |-> dateTimestamp(now), jobs |-> allJobs]

\* the Crawl Result handed to fs.writeFile
crawlResult(pages) ==
  [kind |-> "result", done |-> FALSE, text |-> "",
   total_jobs |-> Len(allJobs), expected_total_jobs |-> totalJobs,
   total_pages |-> pages, jobs_created |-> Len(allJobs), jobs_skipped |-> 0,
   error_occurred |-> FALSE, date |-> NoDate,
   date_scraped |-> dateTimestamp(now), jobs |-> allJobs]

\* the Error Record handed to fs.writeFile
errorRecord(message) ==
  [kind |-> "error", done |-> FALSE, text |-> message,
   total_jobs |-> 0, expected_total_jobs |-> 0,
   total_pages |-> 0, jobs_created |-> 0, jobs_skipped |-> 0,
   error_occurred |-> TRUE, date |-> dateDay(now),
   date_scraped |-> NoDate, jobs |-> <<>>]

\* the result file a completed Crawl Result write leaves in database/jobs
fileOf(w) ==
  [name |-> IF spider = "nsw" THEN "nswgov-today" ELSE "today",
   parses |-> TRUE, date_scraped |-> w.date_scraped, jobs |-> w.jobs]

\* writing a file replaces the file of the same name
RECURSIVE putFile(_, _)
putFile(fs, f) ==
  IF fs = <<>> THEN <<f>>
  ELSE IF Head(fs).name = f.name THEN <<f>> \o Tail(fs)
       ELSE <<Head(fs)>> \o putFile(Tail(fs), f)

----------------------------------------------------------------------------
(* Initial state: the process has started and no spider is constructed yet *)

Init ==
  /\ spider \in Spiders
  /\ files \in InitialDirs
  /\ pc = "main"
  /\ now = StartInstant
  /\ cachedJobs = EmptyCache
  /\ browser = "null"
  /\ closeCalls = 0
  /\ detailOpen = 0
  /\ detailOpens = 0
  /\ detailNavs = 0
  /\ totalJobs = 0
  /\ totalPages = 0
  /\ currentPage = 0
  /\ hasMoreJobs = FALSE
  /\ allJobs = <<>>
  /\ summaries = 0
  /\ extracted = <<>>
  /\ rendered = <<>>
  /\ jobListings = <<>>
  /\ idx = 0
  /\ jobs = <<>>
  /\ resolved = <<>>
  /\ freshSeen = 0
  /\ successfulScrapes = 0
  /\ failedScrapes = 0
  /\ challenge = "none"
  /\ confirmed = FALSE
  /\ lastFetch = "none"
  /\ err = ""
  /\ failPage = 0
  /\ emptyPage = 0
  /\ sessions = 0
  /\ navigated = <<>>
  /\ listed = 0
  /\ writes = <<>>
  /\ launchResult = "pending"
  /\ exit = "running"
  /\ unhandled = ""
  /\ followUps = 0
  /\ ticks = 0
  /\ openBrowsers = 0
  /\ restarts = 0
  /\ advertCalls = 0
  /\ advertInterval = "none"
  /\ updatesInterval = "none"
  /\ url = "about:blank"
  /\ page = "null"
  /\ thrown = ""

sessionVars == <<totalJobs, totalPages, currentPage, hasMoreJobs, allJobs, summaries,
                 extracted>>
pageVars == <<jobListings, idx, jobs, resolved, detailOpens, detailNavs, freshSeen,
              successfulScrapes, failedScrapes>>
marks == <<failPage, emptyPage, sessions, navigated, listed>>

\* the locals of #crawl and #scrapeJobs are declared inside their try blocks:
\* when the block is left, by a throw or by returning, they are gone
localsGone ==
  /\ totalJobs' = 0
  /\ totalPages' = 0
  /\ currentPage' = 0
  /\ hasMoreJobs' = FALSE
  /\ allJobs' = <<>>
  /\ summaries' = 0
  /\ extracted' = <<>>
  /\ jobListings' = <<>>
  /\ idx' = 0
  /\ jobs' = <<>>
  /\ resolved' = <<>>
  /\ detailOpens' = 0
  /\ detailNavs' = 0
  /\ freshSeen' = 0
  /\ successfulScrapes' = 0
  /\ failedScrapes' = 0
  /\ lastFetch' = "none"

----------------------------------------------------------------------------
(* The clock advances while the run is suspended at an await.  The clock is *)
(* read by #checkCache, by the cache insert and by #date when a file is     *)
(* written; time that passes at any other await is seen at the next of      *)
(* these reads, so the advance is taken before the spider is constructed    *)
(* (the time since the earlier runs) and before each turn of the item loop. *)

ClockPoints == {"main", "item"}

Tick ==
  /\ pc \in ClockPoints
  /\ \E t \in Instants : t > now /\ now' = t
  /\ UNCHANGED <<spider, publicVars, thrown, confirmed, rendered, pc, files, cachedJobs, browser, closeCalls, detailOpen,
                 sessionVars, pageVars, challenge, lastFetch, err, marks,
                 writes, launchResult, exit>>

----------------------------------------------------------------------------
(* The entry point constructs the spider: the constructor runs loadCache *)

Construct ==
  /\ pc = "main"
  /\ cachedJobs' = loadCache(files)
  /\ pc' = "launch"
  /\ UNCHANGED <<spider, publicVars, thrown, confirmed, rendered, now, files, browser, closeCalls, detailOpen,
                 sessionVars, pageVars, challenge, lastFetch, err, marks,
                 writes, launchResult, exit>>

----------------------------------------------------------------------------
(* launch() *)

\* this.browser = await puppeteer.launch(settings)
LaunchBrowser ==
  /\ pc = "launch"
  /\ \E r \in Outcomes :
       IF r = "ok"
       THEN browser' = "open" /\ pc' = "newPage" /\ err' = err
       ELSE browser' = browser /\ pc' = "launchCatch" /\ err' = r
  /\ UNCHANGED <<spider, publicVars, thrown, confirmed, rendered, now, files, cachedJobs, closeCalls, detailOpen,
                 sessionVars, pageVars, challenge, lastFetch, marks,
                 writes, launchResult, exit>>

\* this.page = await this.browser.newPage(); NSW then calls #crawl, Seek
\* first navigates to the list
NewPage ==
  /\ pc = "newPage"
  /\ \E r \in Outcomes :
       IF r = "ok"
       THEN pc' = (IF spider = "nsw" THEN "crawl" ELSE "seekGoto") /\ err' = err
       ELSE pc' = "launchCatch" /\ err' = r
  /\ UNCHANGED <<spider, publicVars, thrown, confirmed, rendered, now, files, cachedJobs, browser, closeCalls,
                 detailOpen, sessionVars, pageVars, challenge,
                 lastFetch, marks, writes, launchResult, exit>>

\* SeekJobSpider.launch: goto the list, #hasCloudflareVerification, and on a
\* challenge the screenshot and the prompt
SeekGoto ==
  /\ pc = "seekGoto"
  /\ navigated' = Append(navigated, 1)
  /\ \E r \in Outcomes, detected \in BOOLEAN, shot \in CloseOutcomes :
       IF r # "ok"
       THEN pc' = "launchCatch" /\ err' = r /\ challenge' = challenge
       ELSE IF ~detected
       THEN pc' = "crawl" /\ err' = err /\ challenge' = challenge
       ELSE IF shot # "ok"
       THEN pc' = "launchCatch" /\ err' = shot /\ challenge' = "shown"
       ELSE pc' = "waitUser" /\ err' = err /\ challenge' = "shown"
  /\ UNCHANGED <<spider, publicVars, thrown, confirmed, rendered, now, files, cachedJobs, browser, closeCalls,
                 detailOpen, sessionVars, pageVars, lastFetch,
                 failPage, emptyPage, sessions, listed, writes, launchResult, exit>>

\* a launch() that resumes as soon as the verification is completed, without
\* the operator's confirmation
OperatorSolvesResumes ==
  /\ challenge = "shown"
  /\ pc \in {"waitUser", "waitNav"}
  /\ challenge' = "solved"
  /\ pc' = "crawl"
  /\ UNCHANGED <<spider, publicVars, thrown, confirmed, rendered, now, files, cachedJobs, browser, closeCalls,
                 detailOpen, sessionVars, pageVars, lastFetch, err,
                 marks, writes, launchResult, exit>>

\* the operator completes the verification in the browser window, and the
\* browser navigates; a pending page.waitForNavigation resolves
OperatorSolves ==
  /\ challenge = "shown"
  /\ pc \in {"waitUser", "waitNav"}
  /\ challenge' = "solved"
  /\ pc' = IF pc = "waitNav" THEN "crawl" ELSE pc
  /\ UNCHANGED <<spider, publicVars, thrown, confirmed, rendered, now, files, cachedJobs, browser, closeCalls,
                 detailOpen, sessionVars, pageVars, lastFetch, err,
                 marks, writes, launchResult, exit>>

\* #waitForUserInput resolves: the operator pressed Enter
OperatorConfirms ==
  /\ pc = "waitUser"
  /\ pc' = "waitNav"
  /\ confirmed' = TRUE
  /\ UNCHANGED <<spider, publicVars, thrown, rendered, now, files, cachedJobs, browser, closeCalls,
                 detailOpen, sessionVars, pageVars, challenge,
                 lastFetch, err, marks, writes, launchResult, exit>>

\* page.waitForNavigation sees no navigation within the timeout and throws
WaitNavTimeout ==
  /\ pc = "waitNav"
  /\ pc' = "launchCatch"
  /\ err' = "Navigation timeout of 30000 ms exceeded"
  /\ UNCHANGED <<spider, publicVars, thrown, confirmed, rendered, now, files, cachedJobs, browser, closeCalls,
                 detailOpen, sessionVars, pageVars, challenge,
                 lastFetch, marks, writes, launchResult, exit>>

----------------------------------------------------------------------------
(* #crawl: DISCOVERING *)

\* the TimeoutError of page.waitForSelector when the selector never shows up
WaitTimeout == "Waiting for selector failed: 30000ms exceeded"

\* what SeekJobSpider.#crawl throws in place of the error of its wait
SeekLoadFailure == "Failed to load Seek jobs page properly"

\* the errors SeekJobSpider.#crawl raises itself while discovering
SeekDiscoveryErrors ==
  {SeekLoadFailure, "Seek returned an error"}

\* while (currentPage <= totalPages), with hasMoreJobs in SeekJobSpider
loopCondition ==
  IF spider = "nsw" THEN currentPage <= totalPages
  ELSE hasMoreJobs /\ currentPage <= totalPages

\* goto page 1, wait for the list (NSW) or the count message (Seek), read the
\* announced count, compute totalPages.  r is what the provider calls do: a
\* provider error thrown by one of them, the timeout of the wait, or for Seek
\* an error message shown by the site.  SeekJobSpider catches whatever its
\* wait throws and throws SeekLoadFailure instead.
Discover ==
  /\ pc = "crawl"
  /\ sessions' = sessions + 1
  /\ navigated' = Append(navigated, 1)
  /\ \E r \in Outcomes \cup {WaitTimeout}
               \cup (IF spider = "seek" THEN SeekDiscoveryErrors \ {SeekLoadFailure}
                     ELSE {}),
        t \in Totals :
       LET e == IF spider = "seek" /\ r = WaitTimeout THEN SeekLoadFailure
                ELSE IF r # "ok" THEN r
                ELSE IF spider = "seek" /\ t = 0 THEN "No jobs found on Seek"
                ELSE ""
       IN /\ thrown' = (IF r \in ProviderErrors \cup {WaitTimeout} THEN r ELSE "")
          /\ IF e # ""
             THEN /\ pc' = "crawlCatch"
                  /\ err' = e
                  /\ failPage' = 1
                  /\ localsGone
             ELSE /\ pc' = "loop"
                  /\ allJobs' = <<>>
                  /\ summaries' = 0
                  /\ extracted' = <<>>
                  /\ currentPage' = 1
                  /\ hasMoreJobs' = TRUE
                  /\ totalJobs' = t
                  /\ totalPages' = ceilDiv(t, pageSize)
                  /\ UNCHANGED <<err, failPage, pageVars, lastFetch>>
  /\ UNCHANGED <<spider, publicVars, confirmed, rendered, now, files, cachedJobs, browser, closeCalls,
                 detailOpen, challenge, emptyPage, listed, writes,
                 launchResult, exit>>

----------------------------------------------------------------------------
(* #crawl: PAGING *)

\* the head of the loop body: for currentPage > 1, goto the page and wait for
\* its items
PageNavigate ==
  /\ pc = "loop"
  /\ loopCondition
  /\ IF currentPage = 1
     THEN pc' = "extract" /\ UNCHANGED <<navigated, err, failPage, sessionVars, pageVars, lastFetch>>
     ELSE /\ navigated' = Append(navigated, currentPage)
          /\ \E r \in Outcomes :
               IF r = "ok"
               THEN pc' = "extract" /\ UNCHANGED <<err, failPage, sessionVars, pageVars, lastFetch>>
               ELSE pc' = "crawlCatch" /\ err' = r /\ failPage' = currentPage /\ localsGone
  /\ UNCHANGED <<spider, publicVars, thrown, confirmed, rendered, now, files, cachedJobs, browser, closeCalls,
                 detailOpen, challenge, emptyPage, sessions,
                 listed, writes, launchResult, exit>>

\* #scrapeJobs up to its loop: wait for the items, then page.evaluate over
\* the list as rendered at that moment.  Seek's catch block takes a
\* screenshot and rethrows.
Extract ==
  /\ pc = "extract"
  /\ \E r \in Outcomes, dom \in Doms(MaxListed - listed), shot \in CloseOutcomes :
       LET x == extract(dom)
           e == IF r # "ok" THEN r
                ELSE IF ~x.ok THEN "Evaluation failed"
                ELSE ""
       IN IF e # ""
          THEN /\ pc' = "crawlCatch"
               /\ err' = (IF spider = "seek" /\ shot # "ok" THEN shot ELSE e)
               /\ failPage' = currentPage
               /\ localsGone
               /\ listed' = listed + (IF r # "ok" THEN 0 ELSE Len(dom))
               /\ rendered' = (IF r # "ok" THEN <<>> ELSE dom)
               /\ UNCHANGED emptyPage
          ELSE /\ pc' = "item"
               /\ listed' = listed + Len(dom)
               /\ rendered' = dom
               /\ jobListings' = x.list
               /\ idx' = 1
               /\ jobs' = <<>>
               /\ resolved' = <<>>
               /\ detailOpens' = 0
               /\ detailNavs' = 0
               /\ freshSeen' = 0
               /\ successfulScrapes' = 0
               /\ failedScrapes' = 0
               /\ emptyPage' = (IF x.list = <<>> /\ emptyPage = 0
                                THEN currentPage ELSE emptyPage)
               /\ summaries' = summaries + Len(x.list)
               /\ extracted' = extracted \o
                      [i \in DOMAIN x.list |->
                         [page |-> currentPage, summary |-> x.list[i]]]
               /\ UNCHANGED <<err, failPage, totalJobs, totalPages, currentPage,
                              hasMoreJobs, allJobs, lastFetch>>
  /\ UNCHANGED <<spider, publicVars, thrown, confirmed, now, files, cachedJobs, browser, closeCalls,
                 detailOpen, challenge, sessions, navigated,
                 writes, launchResult, exit>>

\* one turn of the for loop up to the await: #checkCache, and on a hit the
\* record is pushed.  On a miss #scrapeJobDetails is called; its own
\* #checkCache runs at the same instant and gives the same answer, so the
\* call goes on to open the detail page.
Item ==
  /\ pc = "item"
  /\ idx <= Len(jobListings)
  /\ LET jobInfo == jobListings[idx]
         cachedDetails == checkCache(jobInfo.jobId)
     IN /\ freshSeen' = freshSeen + (IF isFresh(jobInfo.jobId) THEN 1 ELSE 0)
        /\ IF ~cachedDetails.null
           THEN /\ jobListings' = [jobListings EXCEPT ![idx] = merge(jobInfo, cachedDetails)]
                /\ jobs' = Append(jobs, jobListings'[idx])
                /\ resolved' = Append(resolved, cachedDetails)
                /\ successfulScrapes' = successfulScrapes + 1
                /\ idx' = idx + 1
                /\ pc' = pc
           ELSE /\ pc' = "detail"
                /\ UNCHANGED <<jobListings, idx, jobs, resolved, successfulScrapes>>
  /\ UNCHANGED <<detailOpens, detailNavs, failedScrapes>>
  /\ lastFetch' = "none"
  /\ rendered' = <<>>
  /\ UNCHANGED <<spider, publicVars, thrown, confirmed, now, files, cachedJobs, browser, closeCalls,
                 detailOpen, sessionVars, challenge, err, marks, writes,
                 launchResult, exit>>

\* how a detail fetch can end: it succeeds, newPage throws, a call on the
\* detail page (goto, waitForSelector, evaluate) throws, or close throws
FetchOutcomes == {"ok", "newPage", "page", "close"}

\* #scrapeJobs after the await: { ...jobInfo, details } is pushed and
\* successfulScrapes is incremented, whatever details is
fetchReturned(details, outcome) ==
  /\ jobs' = Append(jobs, merge(jobListings[idx], details))
  /\ resolved' = Append(resolved, details)
  /\ successfulScrapes' = successfulScrapes + 1
  /\ UNCHANGED failedScrapes
  /\ idx' = idx + 1
  /\ lastFetch' = outcome
  /\ pc' = "item"
  /\ UNCHANGED jobListings

\* a catch block that rethrows: the loop's own catch counts a failed scrape
\* and goes on to the next item without a record
fetchCatchRethrows(outcome) ==
  /\ failedScrapes' = failedScrapes + 1
  /\ UNCHANGED successfulScrapes
  /\ idx' = idx + 1
  /\ lastFetch' = outcome
  /\ pc' = "item"
  /\ UNCHANGED <<jobListings, jobs, resolved>>

\* the catch block of #scrapeJobDetails: log and return null
fetchCatch(outcome) == fetchReturned(NullDetails, outcome)

\* #scrapeJobDetails from its try block: newPage, goto, waitForSelector,
\* evaluate, close, cache insert
DetailFetch ==
  /\ pc = "detail"
  /\ \E outcome \in FetchOutcomes :
       LET jobInfo == jobListings[idx]
           jobDetails == detailOf(jobInfo.jobUrl, now)
       IN /\ detailOpens' = detailOpens + 1
          /\ detailNavs' = detailNavs + (IF outcome = "newPage" THEN 0 ELSE 1)
          /\ detailOpen' = detailOpen + (IF outcome \in {"page", "close"} THEN 1 ELSE 0)
          /\ IF outcome = "ok"
             THEN /\ cachedJobs' = cacheSet(cachedJobs, jobInfo.jobId, toISOString(now), jobDetails)
                  /\ fetchReturned(jobDetails, outcome)
             ELSE /\ cachedJobs' = cachedJobs
                  /\ fetchCatch(outcome)
  /\ rendered' = <<>>
  /\ UNCHANGED <<spider, publicVars, thrown, confirmed, now, files, browser, closeCalls, sessionVars, freshSeen,
                 challenge, err, marks, writes, launchResult, exit>>

\* a loop body that forgets to clear hasMoreJobs on an empty Seek page
EndPageKeepsPaging ==
  /\ pc = "item"
  /\ idx > Len(jobListings)
  /\ IF spider = "seek" /\ Len(jobs) = 0
     THEN UNCHANGED <<hasMoreJobs, allJobs, currentPage>>
     ELSE /\ allJobs' = allJobs \o jobs
          /\ currentPage' = currentPage + 1
          /\ UNCHANGED hasMoreJobs
  /\ jobListings' = <<>>
  /\ jobs' = <<>>
  /\ resolved' = <<>>
  /\ idx' = 0
  /\ detailOpens' = 0
  /\ detailNavs' = 0
  /\ freshSeen' = 0
  /\ successfulScrapes' = 0
  /\ failedScrapes' = 0
  /\ lastFetch' = "none"
  /\ pc' = "loop"
  /\ rendered' = <<>>
  /\ UNCHANGED <<spider, publicVars, thrown, confirmed, now, files, cachedJobs, browser, closeCalls,
                 detailOpen, totalJobs, totalPages, summaries, extracted,
                 challenge, err,
                 marks, writes, launchResult, exit>>

\* a loop body that puts the page's records in front of the accumulated ones
EndPagePrepends ==
  /\ pc = "item"
  /\ idx > Len(jobListings)
  /\ IF spider = "seek" /\ Len(jobs) = 0
     THEN hasMoreJobs' = FALSE /\ UNCHANGED <<allJobs, currentPage>>
     ELSE /\ allJobs' = jobs \o allJobs
          /\ currentPage' = currentPage + 1
          /\ UNCHANGED hasMoreJobs
  /\ jobListings' = <<>>
  /\ jobs' = <<>>
  /\ resolved' = <<>>
  /\ idx' = 0
  /\ detailOpens' = 0
  /\ detailNavs' = 0
  /\ freshSeen' = 0
  /\ successfulScrapes' = 0
  /\ failedScrapes' = 0
  /\ lastFetch' = "none"
  /\ pc' = "loop"
  /\ rendered' = <<>>
  /\ UNCHANGED <<spider, publicVars, thrown, confirmed, now, files, cachedJobs, browser, closeCalls,
                 detailOpen, totalJobs, totalPages, summaries, extracted,
                 challenge, err,
                 marks, writes, launchResult, exit>>

\* #scrapeJobs returns and the loop body ends: NSW appends and moves on;
\* Seek stops paging on an empty page
EndPage ==
  /\ pc = "item"
  /\ idx > Len(jobListings)
  /\ IF spider = "seek" /\ Len(jobs) = 0
     THEN hasMoreJobs' = FALSE /\ UNCHANGED <<allJobs, currentPage>>
     ELSE /\ allJobs' = allJobs \o jobs
          /\ currentPage' = currentPage + 1
          /\ UNCHANGED hasMoreJobs
  /\ jobListings' = <<>>
  /\ jobs' = <<>>
  /\ resolved' = <<>>
  /\ idx' = 0
  /\ detailOpens' = 0
  /\ detailNavs' = 0
  /\ freshSeen' = 0
  /\ successfulScrapes' = 0
  /\ failedScrapes' = 0
  /\ lastFetch' = "none"
  /\ pc' = "loop"
  /\ rendered' = <<>>
  /\ UNCHANGED <<spider, publicVars, thrown, confirmed, now, files, cachedJobs, browser, closeCalls,
                 detailOpen, totalJobs, totalPages, summaries, extracted,
                 challenge, err,
                 marks, writes, launchResult, exit>>

----------------------------------------------------------------------------
(* #crawl: FINISHING and FAILED *)

\* after the loop: fs.writeFile of the Crawl Result is issued (its callback
\* runs later); total_pages is totalPages in NSW, currentPage - 1 in Seek
Finish ==
  /\ pc = "loop"
  /\ ~loopCondition
  /\ writes' = Append(writes, crawlResult(IF spider = "nsw" THEN totalPages
                                          ELSE currentPage - 1))
  /\ pc' = "release"
  /\ UNCHANGED <<spider, publicVars, thrown, confirmed, rendered, now, files, cachedJobs, browser, closeCalls,
                 detailOpen, sessionVars, pageVars, challenge,
                 lastFetch, err, marks, launchResult, exit>>

\* await this.#terminate() at the end of the try block; #crawl then returns
\* and so does launch()
Release ==
  /\ pc = "release"
  /\ closeCalls' = closeCalls + 1
  /\ \E c \in CloseOutcomes :
       IF c = "ok"
       THEN /\ browser' = "closed"
            /\ pc' = "returned"
            /\ launchResult' = "resolved"
            /\ err' = err
       ELSE /\ browser' = browser
            /\ pc' = "crawlCatch"
            /\ launchResult' = launchResult
            /\ err' = c
  /\ localsGone
  /\ UNCHANGED <<spider, publicVars, thrown, confirmed, rendered, now, files, cachedJobs, detailOpen,
                 challenge, marks, writes, exit>>

\* the catch block of NSWJobSpider.#crawl: #terminate, then fs.writeFile of
\* the Error Record; the error is not rethrown
CrawlCatchNSW ==
  /\ pc = "crawlCatch"
  /\ spider = "nsw"
  /\ closeCalls' = closeCalls + 1
  /\ \E c \in CloseOutcomes :
       IF c = "ok"
       THEN /\ browser' = "closed"
            /\ writes' = Append(writes, errorRecord(err))
            /\ pc' = "returned"
            /\ launchResult' = "resolved"
       ELSE /\ browser' = browser
            /\ writes' = writes
            /\ pc' = "launchCatch"
            /\ launchResult' = launchResult
  /\ rendered' = <<>>
  /\ UNCHANGED <<spider, publicVars, thrown, confirmed, now, files, cachedJobs, detailOpen,
                 sessionVars, pageVars, challenge, lastFetch, err,
                 marks, exit>>

\* the catch block of SeekJobSpider.#crawl: screenshot, #terminate, throw err
CrawlCatchSeek ==
  /\ pc = "crawlCatch"
  /\ spider = "seek"
  /\ \E shot \in CloseOutcomes, c \in CloseOutcomes :
       IF shot # "ok"
       THEN UNCHANGED <<browser, closeCalls>>
       ELSE /\ closeCalls' = closeCalls + 1
            /\ browser' = (IF c = "ok" THEN "closed" ELSE browser)
  /\ pc' = "launchCatch"
  /\ rendered' = <<>>
  /\ UNCHANGED <<spider, publicVars, thrown, confirmed, now, files, cachedJobs, detailOpen,
                 sessionVars, pageVars, challenge, lastFetch, err,
                 marks, writes, launchResult, exit>>

\* the catch block of launch(): log, #terminate (which closes this.browser
\* whenever it is set); launch() rejects only if that close throws
LaunchCatch ==
  /\ pc = "launchCatch"
  /\ IF browser = "null"
     THEN launchResult' = "resolved" /\ UNCHANGED <<browser, closeCalls>>
     ELSE /\ closeCalls' = closeCalls + 1
          /\ \E c \in CloseOutcomes :
               IF c = "ok"
               THEN browser' = "closed" /\ launchResult' = "resolved"
               ELSE browser' = browser /\ launchResult' = "rejected"
  /\ pc' = "returned"
  /\ UNCHANGED <<spider, publicVars, thrown, confirmed, rendered, now, files, cachedJobs, detailOpen,
                 sessionVars, pageVars, challenge, lastFetch, err,
                 marks, writes, exit>>

----------------------------------------------------------------------------
(* The entry point after launch() has settled *)

\* scrapeNSWGov / scrapeSeek: the success message after the await, or the
\* catch block with process.exit(1)
EntryPoint ==
  /\ pc = "returned"
  /\ exit' = (IF launchResult = "resolved" THEN "success" ELSE "exit1")
  /\ pc' = "exited"
  /\ UNCHANGED <<spider, publicVars, thrown, confirmed, rendered, now, files, cachedJobs, browser, closeCalls,
                 detailOpen, sessionVars, pageVars, challenge,
                 lastFetch, err, marks, writes, launchResult>>

\* an issued fs.writeFile completes; a Crawl Result becomes a file of
\* database/jobs.  process.exit ends the process and its pending writes.
WriteCompletes ==
  /\ exit # "exit1"
  /\ \E i \in DOMAIN writes :
       /\ ~writes[i].done
       /\ writes' = [writes EXCEPT ![i].done = TRUE]
       /\ files' = (IF writes[i].kind = "result" THEN putFile(files, fileOf(writes[i]))
                    ELSE files)
  /\ UNCHANGED <<spider, publicVars, thrown, confirmed, rendered, pc, now, cachedJobs, browser, closeCalls,
                 detailOpen, sessionVars, pageVars, challenge,
                 lastFetch, err, marks, launchResult, exit>>

----------------------------------------------------------------------------

Next ==
  \/ Tick
  \/ Construct
  \/ LaunchBrowser
  \/ NewPage
  \/ SeekGoto
  \/ OperatorSolves
  \/ OperatorConfirms
  \/ WaitNavTimeout
  \/ Discover
  \/ PageNavigate
  \/ Extract
  \/ Item
  \/ DetailFetch
  \/ EndPage
  \/ Finish
  \/ Release
  \/ CrawlCatchNSW
  \/ CrawlCatchSeek
  \/ LaunchCatch
  \/ EntryPoint
  \/ WriteCompletes

Spec == Init /\ [][Next]_vars

----------------------------------------------------------------------------
(* The restart lists.  Only PublicJobSpider restarts a failed run: its      *)
(* catch blocks test err.message.includes(signature) over these lists.      *)

KnownSignatures ==
  { "net::ERR_TIMED_OUT at https://www.govpage.co.za/",
    "Node is either not clickable or not an HTMLElement",
    "Navigation timeout of 100000 ms exceeded",
    "Cannot read properties of null (reading 'isIntersectingViewport')",
    "Navigation failed because browser has disconnected!",
    "PID",
    "Target closed" }

\* message.includes(signature), over the messages of this model
includes(message, signature) ==
  \/ message = signature
  \/ message = "Protocol error: Target closed" /\ signature = "Target closed"

knownTransient(message) == \E g \in KnownSignatures : includes(message, g)

\* a crawl session was started and ended in FAILED
sessionFailed == sessions > 0 /\ err # ""

resultWrites == {i \in DOMAIN writes : writes[i].kind = "result"}
errorWrites == {i \in DOMAIN writes : writes[i].kind = "error"}

----------------------------------------------------------------------------
(* Cache freshness *)

\* C1: every cache entry, inserted by a detail fetch or loaded from a result
\* file, is returned by #checkCache while now - lastScraped <= 24h and is
\* reported absent (null) once now - lastScraped > 24h.
C1_CacheFreshness ==
  \A id \in JobIds :
    cachedJobs[id].has =>
      IF now - instantOf(cachedJobs[id].lastScraped) <= DayMs
      THEN checkCache(id) = cachedJobs[id].details
      ELSE checkCache(id) = NullDetails

----------------------------------------------------------------------------
(* One written file *)

\* C2: once launch() has settled, exactly one file write has been issued:
\* either the Crawl Result or an Error Record, never both and never neither.
C2_ExactlyOneFile == launchResult # "pending" => Len(writes) = 1

----------------------------------------------------------------------------
(* Restart *)

\* C3: when a navigation failure with a known-transient signature occurs on
\* a page k > 1, the run has, by the time launch() settles, started a new
\* session from page 1 and persisted a Crawl Result built by that session.
C3_RestartDiscardsPageState ==
  (launchResult # "pending" /\ failPage > 1 /\ knownTransient(err)) =>
    (sessions > 1 /\ resultWrites # {})

----------------------------------------------------------------------------
(* Early stop *)

\* C4: once the Page Extractor has returned no summary for page k, no page
\* after k is navigated, and a persisted Crawl Result has total_pages = k - 1.
C4_EarlyStop ==
  emptyPage # 0 =>
    /\ \A i \in DOMAIN navigated : navigated[i] <= emptyPage
    /\ \A i \in resultWrites : writes[i].total_pages = emptyPage - 1

----------------------------------------------------------------------------
(* Cache hits *)

\* C5: an item whose cache entry is fresh is resolved from the cache without
\* a detail page and its record is appended, so that when the items of a
\* page are done, n records exist and exactly n - c detail fetches were
\* attempted, c being the items that had a fresh entry.
C5_CacheHitNoNavigation ==
  (pc = "item" /\ idx > Len(jobListings)) =>
    /\ Len(jobs) = Len(jobListings)
    /\ detailOpens = Len(jobListings) - freshSeen

----------------------------------------------------------------------------
(* Detail fetch failures *)

\* C6: a failure inside the Detail Fetcher does not raise: right after it the
\* session is still in the item loop and not failed, the item's record has
\* been pushed with details = null, and every item processed so far, failed
\* or not, has its record, so the remaining items are processed as usual.
C6_DetailFailureLocal ==
  /\ pc \in {"item", "detail"} => Len(jobs) = idx - 1 /\ err = ""
  /\ lastFetch \in FetchOutcomes \ {"ok"} =>
       /\ pc = "item"
       /\ jobs[idx - 1] = merge(jobListings[idx - 1], NullDetails)

\* a page on which the first item's fetch failed and the second item was
\* processed after it
C6_Witness ==
  /\ pc = "item"
  /\ Len(jobs) = 2
  /\ jobs[1].details.null
  /\ detailOpens = 2
  /\ ~jobs[2].details.null

\* C7: whenever the Detail Fetcher has returned, on the success path and on
\* every failure path, no detail page is open.
C7_DetailPagesClosed == (pc = "item" /\ lastFetch # "none") => detailOpen = 0

----------------------------------------------------------------------------
(* Failure policy *)

\* C8: when a session attempt has failed with an error that matches no known
\* signature, an Error Record for it has been issued by the time launch()
\* settles, and no new session was started.
C8_UnknownFailurePolicy ==
  (launchResult # "pending" /\ sessionFailed /\ ~knownTransient(err)) =>
    /\ \E i \in errorWrites : writes[i].text = err
    /\ sessions = 1

\* C9: when a session has ended in FAILED, launch() rejects, so the entry
\* point exits with status 1 and does not report success.
C9_FailureSurfaced ==
  (pc = "exited" /\ sessionFailed) => (launchResult = "rejected" /\ exit = "exit1")

----------------------------------------------------------------------------
(* Merge *)

\* C10: every record whose detail resolved, from the cache or by a fetch, has
\* exactly the summary's fields, each with the summary's value, plus details
\* equal to the resolved detail; records of both paths, in the page's list,
\* in the session's list and in the written result, have the same shape.
C10_MergeCompleteness ==
  /\ \A i \in DOMAIN jobs :
       /\ DOMAIN jobs[i] = SummaryFields \cup {"details"}
       /\ \A f \in SummaryFields : jobs[i][f] = jobListings[i][f]
       /\ jobs[i].details = resolved[i]
  /\ \A i \in DOMAIN allJobs : DOMAIN allJobs[i] = SummaryFields \cup {"details"}
  /\ \A w \in resultWrites : \A i \in DOMAIN writes[w].jobs :
       DOMAIN writes[w].jobs[i] = SummaryFields \cup {"details"}

\* a page with one record resolved from the cache and one by a fetch
C10_Witness ==
  /\ pc = "item"
  /\ Len(jobs) = 2
  /\ detailOpens = 1
  /\ ~jobs[1].details.null
  /\ ~jobs[2].details.null

----------------------------------------------------------------------------
(* Totals *)

\* C11: when the Crawl Result has just been issued by a session in which no
\* page was empty and no page-level error occurred, with T > 0 announced, it
\* has total_pages = ceil(T / pageSize), total_jobs = jobs_created = the
\* length of jobs = the number of summaries the pages yielded, and
\* jobs_skipped = 0; when the pages' sizes sum to T, all of these equal T =
\* expected_total_jobs.
C11_FullCrawlTotals ==
  (pc = "release" /\ emptyPage = 0 /\ totalJobs > 0) =>
    LET w == writes[Len(writes)]
    IN /\ w.kind = "result"
       /\ w.total_pages = ceilDiv(totalJobs, pageSize)
       /\ w.expected_total_jobs = totalJobs
       /\ w.total_jobs = summaries
       /\ w.jobs_created = summaries
       /\ Len(w.jobs) = summaries
       /\ w.jobs_skipped = 0
       /\ summaries = totalJobs =>
            (w.total_jobs = totalJobs /\ w.jobs_created = totalJobs /\ Len(w.jobs) = totalJobs)

\* a full crawl: one job announced, one page, one summary, result issued
C11_Witness ==
  /\ pc = "release"
  /\ emptyPage = 0
  /\ totalJobs = 1
  /\ summaries = totalJobs
  /\ writes[Len(writes)].total_jobs = 1
  /\ writes[Len(writes)].total_pages = 1

\* a crawl over two non-empty pages
C11_WitnessTwoPages ==
  /\ pc = "release"
  /\ emptyPage = 0
  /\ totalJobs = 26
  /\ summaries = 2
  /\ writes[Len(writes)].total_pages = 2

----------------------------------------------------------------------------
(* Page Extractor *)

\* the summaries of a page, without what the item loop has added to them
summariesOf(list) == [i \in DOMAIN list |-> [f \in SummaryFields |-> list[i][f]]]

\* C12: when page.evaluate has read a list in which the extraction of some
\* element throws, the extractor returns the summaries of the other elements
\* in order, without the throwing ones, and the session has not failed.
C12_ExtractionIsolation ==
  (rendered # <<>> /\ \E i \in DOMAIN rendered : rendered[i].throws) =>
    /\ pc = "item"
    /\ err = ""
    /\ summariesOf(jobListings) = filterGood(rendered)

----------------------------------------------------------------------------
(* Cache rebuild *)

\* C13: right after the constructor's loadCache, every record of every file
\* of the jobs directory that has a non-empty jobId and details has a cache
\* entry under its jobId, holding the details of a file that contains the
\* id, whatever other files the directory holds.
C13_CacheRebuildComplete ==
  pc = "launch" =>
    \A i \in DOMAIN files : \A j \in DOMAIN files[i].jobs :
      LET job == files[i].jobs[j]
      IN (job.jobId # "" /\ ~job.details.null) =>
           /\ cachedJobs[job.jobId].has
           /\ \E k \in DOMAIN files : \E l \in DOMAIN files[k].jobs :
                /\ files[k].jobs[l].jobId = job.jobId
                /\ files[k].jobs[l].details = cachedJobs[job.jobId].details

----------------------------------------------------------------------------
(* Ordering of the result write *)

\* C14: once the provider has been released or launch() has returned, every
\* Crawl Result write that was issued has completed.
C14_PersistBeforeRelease ==
  (browser = "closed" \/ launchResult # "pending") =>
    \A i \in resultWrites : writes[i].done

----------------------------------------------------------------------------
(* Operations in flight *)

\* the provider call the thread of control is suspended in: none before the
\* spider is constructed, while the operator is awaited, and after launch()
\* has settled
threadOps == IF pc \in {"main", "waitUser", "returned", "exited"} THEN 0 ELSE 1

\* fs.writeFile calls whose callback has not run
pendingWrites == Cardinality({i \in DOMAIN writes : ~writes[i].done})

\* C15: at every point of a run at most one navigation, extraction, provider
\* teardown or file operation is in flight; no file write overlaps the
\* provider release.
C15_SerialExecution == threadOps + pendingWrites <= 1

----------------------------------------------------------------------------
(* Human verification gate *)

\* C16: when launch() is about to enter #crawl or a session has been entered,
\* the operator's confirmation has been received if a challenge was detected
\* after the initial navigation, and has not been waited for if none was.
C16_VerificationGate ==
  (pc = "crawl" \/ sessions > 0) => (challenge # "none" <=> confirmed)

\* a session entered after a challenge that the operator solved and confirmed
C16_Witness == sessions > 0 /\ challenge = "solved" /\ confirmed

----------------------------------------------------------------------------
(* Error Record *)

\* C17: every Error Record issued has the triggering error's message as
\* text, a date, zero counters and error_occurred = true; and once launch()
\* has settled after a failed session, an Error Record has been issued, the
\* provider is released and launch() has signalled the failure by rejecting.
C17_ErrorRecord ==
  /\ \A i \in errorWrites :
       /\ writes[i].text = err
       /\ writes[i].date # NoDate
       /\ writes[i].total_jobs = 0
       /\ writes[i].jobs_created = 0
       /\ writes[i].jobs_skipped = 0
       /\ writes[i].total_pages = 0
       /\ writes[i].error_occurred
  /\ (launchResult # "pending" /\ sessionFailed) =>
       /\ errorWrites # {}
       /\ browser = "closed"
       /\ launchResult = "rejected"

----------------------------------------------------------------------------
(* Stale entries *)

\* the entry of jobId exists and is older than 24h
isStale(jobId) == cachedJobs[jobId].has /\ ~isFresh(jobId)

\* C18: an item whose cache entry is stale always goes to a fresh fetch; when
\* the fetch of an item with a stale entry succeeds, the entry becomes
\* exactly {lastScraped: now, details: the new detail} and a lookup right
\* after returns the new detail; when it fails, the cache is unchanged.
C18_StaleReplacement ==
  [][ /\ (pc = "item" /\ idx <= Len(jobListings) /\ idx' # idx)
           => ~isStale(jobListings[idx].jobId)
      /\ (pc = "detail" /\ pc' = "item" /\ isStale(jobListings[idx].jobId)) =>
           LET id == jobListings[idx].jobId
               new == resolved'[Len(resolved')]
               entry == cachedJobs'[id]
               lookup == IF ~entry.has \/ olderThanDay(newDate(entry.lastScraped))
                         THEN NullDetails ELSE entry.details
           IN IF lastFetch' = "ok"
              THEN /\ entry = [has |-> TRUE, lastScraped |-> toISOString(now), details |-> new]
                   /\ ~new.null
                   /\ lookup = new
              ELSE cachedJobs' = cachedJobs
    ]_vars

----------------------------------------------------------------------------
(* Cache lifecycle *)

\* a detail that a fetch of this run returned
fetchedInRun(details) ==
  ~details.null /\ instantOf(details.lastScraped) >= StartInstant

\* C19: the cache is loaded from the files by the constructor only and is
\* afterwards changed only by the insert of a successful detail fetch; the
\* files change only after a Crawl Result has been issued (FINISHING); and
\* whenever the session has ended in FAILED, the files hold no detail that
\* was fetched in the run.
C19_CacheLifecycle ==
  [][ /\ cachedJobs' # cachedJobs =>
           \/ pc = "main"
           \/ /\ pc = "detail"
              /\ lastFetch' = "ok"
              /\ cachedJobs' = cacheSet(cachedJobs, jobListings[idx].jobId,
                                        toISOString(now), resolved'[Len(resolved')])
      /\ files' # files => resultWrites # {}
      /\ sessionFailed =>
           \A i \in DOMAIN files : \A j \in DOMAIN files[i].jobs :
             ~fetchedInRun(files[i].jobs[j].details)
    ]_vars

----------------------------------------------------------------------------
(* Zero announced count *)

\* C20: when page 1 has loaded and announces no count or 0, NSWJobSpider
\* leaves the loop at once and issues a Crawl Result with total_jobs = 0,
\* total_pages = 0 and no jobs, without extracting a page or opening a detail
\* page, and no Error Record is written; SeekJobSpider fails the session
\* with "No jobs found on Seek", never enters the loop and issues no Crawl
\* Result.
C20_ZeroCountPolicy ==
  /\ (spider = "nsw" /\ pc = "loop" /\ totalJobs = 0) => (~loopCondition /\ err = "")
  /\ \A i \in resultWrites :
       writes[i].expected_total_jobs = 0 =>
         /\ spider = "nsw"
         /\ writes[i].total_jobs = 0
         /\ writes[i].total_pages = 0
         /\ writes[i].jobs = <<>>
         /\ listed = 0
         /\ detailOpen = 0
         /\ navigated = <<1>>
         /\ errorWrites = {}
  /\ (spider = "seek" /\ pc \in {"loop", "extract", "item", "detail", "release"})
       => totalJobs > 0
  /\ err = "No jobs found on Seek" => (sessionFailed /\ resultWrites = {})

----------------------------------------------------------------------------
(* C21 *)

\* the signature the Recovery Loop has for a navigation timeout
NavigationTimeoutSignature == "Navigation timeout of 100000 ms exceeded"

\* C21: when the wait of DISCOVERING for the list of page 1 (NSW) or for the
\* announced count (Seek) times out, the session is in FAILED and the error
\* its failure handler holds is the provider's timeout error, which matches
\* the navigation-timeout signature.
C21_DiscoveryTimeout ==
  (pc = "crawlCatch" /\ thrown = WaitTimeout)
    => /\ sessionFailed
       /\ err = thrown
       /\ includes(err, NavigationTimeoutSignature)

----------------------------------------------------------------------------
(* PublicJobSpider (src/unnamed/part_002): launch() and #crawl with the     *)
(* restart in #crawl's catch block, and the two 5 s polls.  A second        *)
(* specification, SpecPublic, runs this spider; it shares the variables pc, *)
(* browser, closeCalls, err, writes, launchResult and exit with Spec.       *)

\* restarts one run of SpecPublic can make
MaxRestarts == 2
\* interval callbacks one run of SpecPublic can execute
MaxTicks == 3

\* the variables of Spec that PublicJobSpider does not touch
crawlVars == <<spider, thrown, confirmed, rendered, now, files, cachedJobs,
               detailOpen, detailOpens, detailNavs, totalJobs, totalPages,
               currentPage, hasMoreJobs, allJobs, summaries, extracted,
               jobListings, idx,
               jobs, resolved, freshSeen, successfulScrapes, failedScrapes,
               challenge, lastFetch, failPage,
               emptyPage, sessions, navigated, listed>>

\* the signatures of the catch block of #crawl
CrawlSignatures ==
  { "net::ERR_TIMED_OUT at https://www.govpage.co.za/",
    "Node is either not clickable or not an HTMLElement",
    "Navigation timeout of 100000 ms exceeded",
    "Cannot read properties of null (reading 'isIntersectingViewport')" }

\* the signatures of the catch block of #advertLinks
AdvertSignatures ==
  { "Navigation failed because browser has disconnected!", "PID", "Target closed" }

\* page.goto timing out under setDefaultNavigationTimeout(200000)
NavigationTimeout == "Navigation timeout of 200000 ms exceeded"
\* page.goto(#allowedDomains[0]) when the connection times out
GotoTimedOut == "net::ERR_TIMED_OUT at https://iworkfor.nsw.gov.au/jobs"
\* elementHandle.click() on a detached or hidden element
NotClickable == "Node is either not clickable or not an HTMLElement"
Disconnected == "Navigation failed because browser has disconnected!"
TargetClosed == "Protocol error: Target closed"

\* what the provider calls of #crawl (goto, $, $$, evaluate, click) can throw
PublicErrors ==
  {NavigationTimeout, GotoTimedOut, NotClickable, Disconnected, TargetClosed,
   "net::ERR_ABORTED"}

\* the documents the page can be on: the menu page, the list of updates, a
\* document whose address contains the text "undefined", and the post dated
\* today
Urls == {"/menu", "/latest-updates", "/undefined", "/posts/today"}

\* page.url().includes(this.#allowedDomains[1]): #allowedDomains has one
\* element, so the argument is undefined and includes() looks for the text
\* "undefined"
updatesCondition == url = "/undefined"

\* page.url().includes(date), date being today's date in lower case
advertCondition == url = "/posts/today"

\* the files PublicJobSpider writes: { text, date } or the posts
publicRecord(kind, text) == [kind |-> kind, text |-> text, date |-> dateDay(now)]

\* #terminate: page.goto("about:blank") then browser.close(), both inside a
\* try whose catch is empty; g and c are what the two calls do
publicTerminate(g, c) ==
  IF browser # "null" /\ page # "null" /\ g = "ok"
  THEN /\ closeCalls' = closeCalls + 1
       /\ IF c = "ok" /\ browser = "open"
          THEN browser' = "closed" /\ openBrowsers' = openBrowsers - 1
          ELSE UNCHANGED <<browser, openBrowsers>>
  ELSE UNCHANGED <<closeCalls, browser, openBrowsers>>

\* the error message matches a signature of #crawl's catch block
crawlMatches(message) == \E g \in CrawlSignatures : includes(message, g)

InitPublic ==
  /\ spider = "public"
  /\ files = <<>>
  /\ pc = "publicLaunch"
  /\ now = StartInstant
  /\ cachedJobs = EmptyCache
  /\ browser = "null"
  /\ closeCalls = 0
  /\ detailOpen = 0
  /\ detailOpens = 0
  /\ detailNavs = 0
  /\ totalJobs = 0
  /\ totalPages = 0
  /\ currentPage = 0
  /\ hasMoreJobs = FALSE
  /\ allJobs = <<>>
  /\ summaries = 0
  /\ extracted = <<>>
  /\ rendered = <<>>
  /\ jobListings = <<>>
  /\ idx = 0
  /\ jobs = <<>>
  /\ resolved = <<>>
  /\ freshSeen = 0
  /\ successfulScrapes = 0
  /\ failedScrapes = 0
  /\ challenge = "none"
  /\ confirmed = FALSE
  /\ lastFetch = "none"
  /\ err = ""
  /\ failPage = 0
  /\ emptyPage = 0
  /\ sessions = 0
  /\ navigated = <<>>
  /\ listed = 0
  /\ writes = <<>>
  /\ launchResult = "pending"
  /\ exit = "running"
  /\ unhandled = ""
  /\ followUps = 0
  /\ ticks = 0
  /\ openBrowsers = 0
  /\ restarts = 0
  /\ advertCalls = 0
  /\ advertInterval = "none"
  /\ updatesInterval = "none"
  /\ url = "about:blank"
  /\ page = "null"
  /\ thrown = ""

\* launch(): puppeteer.launch(settings).  When it throws, launch's catch
\* block logs the error and launch returns.
PublicLaunch ==
  /\ pc = "publicLaunch"
  /\ exit = "running"
  /\ \E r \in {"ok", "Failed to launch the browser process!"} :
       IF r = "ok"
       THEN /\ browser' = "open"
            /\ openBrowsers' = openBrowsers + 1
            /\ pc' = "publicNewPage"
            /\ UNCHANGED <<err, launchResult>>
       ELSE /\ pc' = "publicReturned"
            /\ err' = r
            /\ launchResult' = "resolved"
            /\ UNCHANGED <<browser, openBrowsers>>
  /\ UNCHANGED <<crawlVars, closeCalls, writes, exit, page, url,
                 updatesInterval, advertInterval, advertCalls, restarts,
                 ticks, followUps, unhandled>>

\* launch(): this.browser.newPage().  When it throws, launch's catch block
\* logs the error and launch returns; nothing closes the browser.
PublicNewPage ==
  /\ pc = "publicNewPage"
  /\ exit = "running"
  /\ \E r \in {"ok", TargetClosed} :
       IF r = "ok"
       THEN /\ page' = "open"
            /\ url' = "about:blank"
            /\ pc' = "publicCrawl"
            /\ UNCHANGED <<err, launchResult>>
       ELSE /\ pc' = "publicReturned"
            /\ err' = r
            /\ launchResult' = "resolved"
            /\ UNCHANGED <<page, url>>
  /\ UNCHANGED <<crawlVars, browser, closeCalls, writes, exit,
                 updatesInterval, advertInterval, advertCalls, restarts,
                 openBrowsers, ticks, followUps, unhandled>>

\* #crawl, the try block: goto the start page, open the menu, look for the
\* "Latest Updates" item, click it and call #latestUpdates, which sets its
\* interval and returns.  r is what the provider calls do; without the menu
\* item the block ends with nothing done.  A failure that would restart is
\* taken only while the model's bound on restarts allows.
PublicCrawl ==
  /\ pc = "publicCrawl"
  /\ exit = "running"
  /\ \E r \in {"ok", "noTarget"} \cup PublicErrors :
       /\ crawlMatches(r) => restarts < MaxRestarts
       /\ IF r = "ok"
          THEN /\ url' \in Urls
               /\ updatesInterval' = "set"
               /\ pc' = "publicReturned"
               /\ launchResult' = "resolved"
               /\ err' = err
          ELSE IF r = "noTarget"
          THEN /\ url' = "/menu"
               /\ pc' = "publicReturned"
               /\ launchResult' = "resolved"
               /\ UNCHANGED <<updatesInterval, err>>
          ELSE /\ pc' = "publicCatch"
               /\ err' = r
               /\ UNCHANGED <<url, updatesInterval, launchResult>>
  /\ UNCHANGED <<crawlVars, browser, closeCalls, writes, exit, page,
                 advertInterval, advertCalls, restarts, openBrowsers, ticks,
                 followUps, unhandled>>

\* #crawl, the catch block: #terminate, then for each signature the message
\* includes: write the error file with the signature as text and await
\* this.launch().  The messages of this model include at most one signature.
\* A message that includes none writes nothing, and launch returns.
PublicCrawlCatch ==
  /\ pc = "publicCatch"
  /\ exit = "running"
  /\ \E g \in {"ok", "throws"}, c \in {"ok", "throws"} : publicTerminate(g, c)
  /\ IF crawlMatches(err)
     THEN /\ writes' = Append(writes,
                 publicRecord("error",
                              CHOOSE m \in CrawlSignatures : includes(err, m)))
          /\ restarts' = restarts + 1
          /\ pc' = "publicLaunch"
          /\ UNCHANGED launchResult
     ELSE /\ pc' = "publicReturned"
          /\ launchResult' = "resolved"
          /\ UNCHANGED <<writes, restarts>>
  /\ UNCHANGED <<crawlVars, err, exit, page, url, updatesInterval,
                 advertInterval, advertCalls, ticks, followUps, unhandled>>

\* a rejection nothing awaits: the runtime prints a warning or, with its
\* default since Node 15, ends the process
rejects(message) ==
  /\ unhandled' = message
  /\ exit' \in {"running", "crashed"}

\* the interval callback of #latestUpdates, updates(): when the condition
\* holds it clears the interval, waits for the post titles and looks for the
\* one dated today; found: click it and call #advertLinks, which sets its
\* interval; not found: write "No job posts for today" and #terminate.
\* Nothing catches what the provider calls throw here.
UpdatesTick ==
  /\ updatesInterval = "set"
  /\ exit = "running"
  /\ ticks < MaxTicks
  /\ ticks' = ticks + 1
  /\ IF updatesCondition
     THEN /\ updatesInterval' = "cleared"
          /\ \E o \in {"found", "none", TargetClosed} :
               IF o = "found"
               THEN /\ url' \in Urls
                    /\ advertInterval' = "set"
                    /\ UNCHANGED <<writes, closeCalls, browser, openBrowsers,
                                   unhandled, exit>>
               ELSE IF o = "none"
               THEN /\ writes' = Append(writes,
                           publicRecord("noPosts", "No job posts for today"))
                    /\ \E g \in {"ok", "throws"}, c \in {"ok", "throws"} :
                         publicTerminate(g, c)
                    /\ UNCHANGED <<url, advertInterval, unhandled, exit>>
               ELSE /\ rejects(o)
                    /\ UNCHANGED <<url, advertInterval, writes, closeCalls,
                                   browser, openBrowsers>>
     ELSE UNCHANGED <<updatesInterval, url, advertInterval, writes,
                      closeCalls, browser, openBrowsers, unhandled, exit>>
  /\ UNCHANGED <<crawlVars, pc, err, launchResult, page, advertCalls,
                 restarts, followUps>>

\* the interval callback of #advertLinks, advertList(), up to its first
\* await: when the condition holds it calls page.$$ and is suspended
AdvertTick ==
  /\ advertInterval = "set"
  /\ exit = "running"
  /\ ticks < MaxTicks
  /\ ticks' = ticks + 1
  /\ advertCalls' = IF advertCondition THEN advertCalls + 1 ELSE advertCalls
  /\ UNCHANGED <<crawlVars, pc, browser, closeCalls, err, writes,
                 launchResult, exit, page, url, updatesInterval,
                 advertInterval, restarts, openBrowsers, followUps, unhandled>>

\* advertList() after page.$$ has returned n links or thrown: with links it
\* clears the interval and reads them, the first one being the date; with
\* posts.total > 0 it writes the posts and, in the callback of the write,
\* calls #terminate.
AdvertQueried ==
  /\ advertCalls > 0
  /\ exit = "running"
  /\ advertCalls' = advertCalls - 1
  /\ \E n \in 0..2, r \in {"ok", TargetClosed} :
       IF r # "ok"
       THEN /\ rejects(r)
            /\ UNCHANGED <<advertInterval, followUps, writes, closeCalls,
                           browser, openBrowsers>>
       ELSE IF n = 0
       THEN UNCHANGED <<advertInterval, followUps, writes, closeCalls,
                        browser, openBrowsers, unhandled, exit>>
       ELSE /\ advertInterval' = "cleared"
            /\ followUps' = followUps + 1
            /\ IF n - 1 > 0
               THEN /\ writes' = Append(writes, publicRecord("posts", "posts"))
                    /\ \E g \in {"ok", "throws"}, c \in {"ok", "throws"} :
                         publicTerminate(g, c)
               ELSE UNCHANGED <<writes, closeCalls, browser, openBrowsers>>
            /\ UNCHANGED <<unhandled, exit>>
  /\ UNCHANGED <<crawlVars, pc, err, launchResult, page, url,
                 updatesInterval, restarts, ticks>>

\* the site moves the page to another document (the navigation a click
\* started completes, or a client-side route change)
PageNavigates ==
  /\ page = "open"
  /\ browser = "open"
  /\ exit = "running"
  /\ updatesInterval = "set" \/ advertInterval = "set"
  /\ \E u \in Urls \ {url} : url' = u
  /\ UNCHANGED <<crawlVars, pc, browser, closeCalls, err, writes,
                 launchResult, exit, page, updatesInterval, advertInterval,
                 advertCalls, restarts, openBrowsers, ticks, followUps,
                 unhandled>>

NextPublic ==
  \/ PublicLaunch
  \/ PublicNewPage
  \/ PublicCrawl
  \/ PublicCrawlCatch
  \/ UpdatesTick
  \/ AdvertTick
  \/ AdvertQueried
  \/ PageNavigates

SpecPublic == InitPublic /\ [][NextPublic]_vars

\* launch() has returned and neither a poll nor a callback is pending
publicQuiescent ==
  /\ pc = "publicReturned"
  /\ updatesInterval # "set"
  /\ advertInterval # "set"
  /\ advertCalls = 0

----------------------------------------------------------------------------
(* C22 *)

\* the failures of the known transient set, as the provider words them:
\* navigation timeout under the configured 200000 ms, disconnected browser,
\* non-clickable element, target closed
TransientKinds == {NavigationTimeout, Disconnected, NotClickable, TargetClosed}

\* C22: a failure of a kind of the known transient set that reaches the
\* failure handler of a session attempt is matched by the signature list:
\* the handler writes an Error Record and restarts the session.
C22_TransientClassification ==
  [][(pc = "publicCatch" /\ err \in TransientKinds)
       => /\ pc' = "publicLaunch"
          /\ restarts' = restarts + 1
          /\ Len(writes') = Len(writes) + 1
          /\ writes'[Len(writes')].kind = "error"]_vars

----------------------------------------------------------------------------
(* C23 *)

\* C23: every restart follows a release of the provider: when launch() is
\* called again no browser of an earlier attempt is still open.
C23_UncappedRestart ==
  [][restarts' = restarts + 1
       => (pc' = "publicLaunch" /\ openBrowsers' = 0)]_vars

----------------------------------------------------------------------------
(* C24 *)

\* C24: once the condition of a poll has become true the follow-up step runs
\* exactly once, and when nothing is pending any more (and no provider call
\* has failed) a file has been written.
C24_PollingWait ==
  /\ followUps <= 1
  /\ (publicQuiescent /\ advertInterval = "cleared" /\ unhandled = "")
       => \E i \in 1..Len(writes) : writes[i].kind # "error"

----------------------------------------------------------------------------
(* C30 *)

\* C30: whenever launch() has returned and no restart or poll is pending,
\* every browser launched during the run has been closed.
C30_NoProviderLeak == publicQuiescent => openBrowsers = 0

----------------------------------------------------------------------------
(* C25 *)

\* the spider whose #databasePath produces the file name: NSWJobSpider names
\* its files nswgov-<timestamp>.json, SeekJobSpider <timestamp>.json; both
\* write into, and loadCache of both reads, database/jobs
writtenBy(name) ==
  IF name \in {"nswgov-day0", "nswgov-today"} THEN "nsw"
  ELSE IF name = "today" THEN "seek"
  ELSE "unknown"

\* C25: the cache a spider has rebuilt holds only entries of jobs found in
\* result files written by the same source.
C25_PerSourcePartitioning ==
  pc = "launch"
    => \A id \in JobIds :
         cachedJobs[id].has
           => \E i \in 1..Len(files) :
                /\ writtenBy(files[i].name) = spider
                /\ \E j \in 1..Len(files[i].jobs) : files[i].jobs[j].jobId = id

----------------------------------------------------------------------------
(* C26 *)

\* C26: when a challenge was detected, the operator has completed the
\* verification and has sent the confirmation, the session has resumed: by
\* the time launch() is settled DISCOVERING has been entered, whichever of
\* the post-verification navigation and the confirmation came first.
C26_ResumeAfterVerification ==
  (launchResult # "pending" /\ confirmed /\ challenge = "solved")
    => sessions > 0

----------------------------------------------------------------------------
(* C27 *)

\* C27: at the end of a page successfulScrapes counts the items whose details
\* are not null, and successfulScrapes + failedScrapes is the number of
\* listings of the page.
C27_FailedScrapeCounting ==
  (pc = "item" /\ idx > Len(jobListings))
    => /\ successfulScrapes
            = Cardinality({i \in 1..Len(jobs) : ~jobs[i].details.null})
       /\ successfulScrapes + failedScrapes = Len(jobListings)

----------------------------------------------------------------------------
(* C28 *)

\* the steps of the paging loop of #crawl.  Each of them ends at an await on
\* a provider call or at a synchronous statement; a provider call that
\* returns or throws lets the single thread of control take its next step.
PagingStep ==
  PageNavigate \/ Extract \/ Item \/ DetailFetch \/ EndPage \/ Finish

\* Spec with every provider call of the paging loop returning or throwing
SpecFair == Spec /\ WF_vars(PagingStep)

\* the session is in its paging loop
inPaging == pc \in {"loop", "extract", "item", "detail"}

\* C28: the Page Extractor runs only on pages 1..totalPages; every iteration
\* of the paging loop either increases currentPage or ends the loop; and a
\* session that is in its paging loop leaves it, to FINISHING or to FAILED.
C28_SessionTermination ==
  /\ [](pc \in {"extract", "item", "detail"}
          => (1 <= currentPage /\ currentPage <= totalPages))
  /\ [][(pc = "item" /\ pc' = "loop")
          => \/ currentPage' = currentPage + 1
             \/ ~(hasMoreJobs' /\ currentPage' <= totalPages')]_vars
  /\ (inPaging ~> pc \in {"release", "crawlCatch"})

\* a session that has extracted every announced page and left the loop
C28_Witness ==
  /\ pc = "release"
  /\ totalPages = 2
  /\ currentPage = totalPages + 1
  /\ navigated = <<1, 2>>

----------------------------------------------------------------------------
(* C29 *)

\* C29: the details of every record of an issued Crawl Result, when not
\* null, are the details of the record's own jobUrl.
C29_DetailProvenance ==
  \A i \in 1..Len(writes) :
    \A j \in 1..Len(writes[i].jobs) :
      LET record == writes[i].jobs[j]
      IN ~record.details.null => record.details.url = record.jobUrl

----------------------------------------------------------------------------
(* C31 *)

\* C31: close() is invoked at most once on the launched browser; in
\* particular it is never invoked again on a browser that an earlier close()
\* has closed.
C31_SingleRelease ==
  [][closeCalls' = closeCalls + 1 => browser # "closed"]_vars

----------------------------------------------------------------------------
(* C32 *)

\* C32: the list pages handed to page.goto in a run start at page 1 and are
\* strictly increasing, so that no list page is navigated twice.
C32_PageOrder ==
  /\ navigated # <<>> => navigated[1] = 1
  /\ \A i \in 1..(Len(navigated) - 1) : navigated[i] < navigated[i + 1]

----------------------------------------------------------------------------
(* C33 *)

\* the summaries the extractor has returned in the session, in page order and
\* within a page in listing order
extractedSummaries == [i \in DOMAIN extracted |-> extracted[i].summary]

\* C33: the records accumulated by the session, followed by the records of
\* the page being processed, are at every moment the records of the listings
\* the extractor returned, page after page in increasing page order and
\* within a page in listing order, none missing, repeated or moved; the jobs
\* array of the Crawl Result just issued is that sequence for all the pages.
C33_ResultOrder ==
  /\ \A i \in 1..(Len(extracted) - 1) : extracted[i].page <= extracted[i + 1].page
  /\ pc \in {"item", "detail"}
       => summariesOf(allJobs \o jobs)
            = SubSeq(extractedSummaries, 1, Len(allJobs) + Len(jobs))
  /\ pc \in {"loop", "extract", "release"}
       => summariesOf(allJobs) = extractedSummaries
  /\ pc = "release"
       => /\ writes[Len(writes)].kind = "result"
          /\ summariesOf(writes[Len(writes)].jobs) = extractedSummaries

\* a Crawl Result issued after two pages with one, different, listing each
C33_Witness ==
  /\ pc = "release"
  /\ Len(extracted) = 2
  /\ extracted[1].page = 1
  /\ extracted[2].page = 2
  /\ extracted[1].summary # extracted[2].summary
  /\ Len(writes[Len(writes)].jobs) = 2

====
